---- MODULE Spec2Model ----
(***************************************************************************)
(* Workshop registration system (src/dsa_project.py): per-workshop         *)
(* admission (priority heap, registered list, linked-list waitlist), the   *)
(* prerequisite graph and the undo stack of RegistrationSystem.            *)
(*                                                                         *)
(* Python dicts are functions whose DOMAIN is the key set; the graph's     *)
(* defaultdict, whose key order is observable through topological_sort,    *)
(* is a sequence of [key, val] entries in insertion order.  A User object  *)
(* is [user_id, obj]: User defines no __eq__, so two objects built with    *)
(* the same id are different values for `in`, `==` and list.remove.        *)
(***************************************************************************)
EXTENDS Integers, Sequences, FiniteSets, TLC

\* ------------------------------------------------------------ bounds
\* Spec: one user id (two User objects can be built with it) and two titles
UserIds == {"u1"}
Titles == {"W1", "W2"}
MaxObjs == 2        \* User objects constructed per user id
MaxUndo == 4        \* length of the undo stack
MaxWait == 1        \* length of a waitlist
MaxCap == 1         \* capacities offered to add_workshop
MaxPriority == 0    \* priorities offered to register

\* max_participants is a non-negative integer; main() reads a priority with
\* isdigit(), so a priority is a non-negative integer too
Capacities == 0..MaxCap
Priorities == 0..MaxPriority

\* SpecAdmission: three users and one workshop
AdmUsers == <<"u1", "u2", "u3">>
AdmUserIds == {AdmUsers[n] : n \in 1..Len(AdmUsers)}
AdmTitle == "W1"
AdmMaxUndo == 7
AdmMaxObjs == 1
AdmMaxWait == 2
AdmMaxCap == 2
AdmMaxPriority == 1
AdmCapacities == 0..AdmMaxCap
AdmPriorities == 0..AdmMaxPriority

\* SpecGraph: three titles
GraphTitles == {"W1", "W2", "W3"}
MaxEdges == 3       \* edges recorded in the graph

\* SpecPrerequisite: depth of the undo stack
PreMaxUndo == 5

VARIABLES users, allocated, workshops, graph, undo_stack, out

vars == <<users, allocated, workshops, graph, undo_stack, out>>

\* ------------------------------------------------------------ lists
\* x in list
InList(x, s) == \E i \in 1..Len(s) : s[i] = x

\* list.remove(x): drops the first occurrence (callers establish x in list)
RECURSIVE ListRemove(_, _)
ListRemove(s, x) ==
    IF s = <<>> THEN <<>>
    ELSE IF Head(s) = x THEN Tail(s)
    ELSE <<Head(s)>> \o ListRemove(Tail(s), x)

Swap(s, i, j) == [s EXCEPT ![i] = s[j], ![j] = s[i]]

\* stack[::-1]
RECURSIVE Reverse(_)
Reverse(s) == IF s = <<>> THEN <<>> ELSE Reverse(Tail(s)) \o <<Head(s)>>

\* ------------------------------------------------------------ LinkedList
\* The waitlist is the sequence of users from head to the last node.
LinkedList_append(list, user) == Append(list, user)

\* takes the last node instead of the head
LinkedList_pop_last(list) ==
    [user |-> list[Len(list)], list |-> SubSeq(list, 1, Len(list) - 1)]

\* pop on a non-empty list (remove_user tests is_empty first)
LinkedList_pop(list) == [user |-> Head(list), list |-> Tail(list)]

LinkedList_is_empty(list) == list = <<>>

\* ------------------------------------------------------------ heapq
\* (priority, user) < (priority, user) as Python compares tuples: the first
\* differing position decides; two different User objects under equal
\* priorities are compared with <, which User does not define.
TupleLt(a, b) ==
    IF a[1] # b[1] THEN (IF a[1] < b[1] THEN "True" ELSE "False")
    ELSE IF a[2] = b[2] THEN "False"
    ELSE "TypeError"

\* heapq._siftdown; positions are Python's 0-based indexes
RECURSIVE siftdown(_, _, _)
siftdown(heap, startpos, pos) ==
    IF pos > startpos
    THEN LET parentpos == (pos - 1) \div 2
             c == TupleLt(heap[pos + 1], heap[parentpos + 1])
         IN  IF c = "TypeError" THEN [heap |-> heap, err |-> TRUE]
             ELSE IF c = "True"
                  THEN siftdown(Swap(heap, pos + 1, parentpos + 1), startpos, parentpos)
                  ELSE [heap |-> heap, err |-> FALSE]
    ELSE [heap |-> heap, err |-> FALSE]

\* heapq._siftup: the smaller child is moved up until a leaf is reached,
\* then newitem is sifted down from there
RECURSIVE siftup_loop(_, _, _, _)
siftup_loop(heap, startpos, pos, newitem) ==
    LET endpos == Len(heap)
        childpos == 2 * pos + 1
        rightpos == childpos + 1
    IN  IF childpos < endpos
        THEN LET c == IF rightpos < endpos
                      THEN TupleLt(heap[childpos + 1], heap[rightpos + 1])
                      ELSE "True"
                 pick == IF c = "True" THEN childpos ELSE rightpos
             IN  IF c = "TypeError" THEN [heap |-> heap, err |-> TRUE]
                 ELSE siftup_loop([heap EXCEPT ![pos + 1] = heap[pick + 1]],
                                  startpos, pick, newitem)
        ELSE siftdown([heap EXCEPT ![pos + 1] = newitem], startpos, pos)

siftup(heap, pos) == siftup_loop(heap, pos, pos, heap[pos + 1])

\* heapq.heappush: append, then sift the new item towards the root
heappush(heap, item) == siftdown(Append(heap, item), 0, Len(heap))

\* heapq.heappop on a non-empty heap
heappop_last(heap) ==
    [item |-> heap[Len(heap)],
     heap |-> SubSeq(heap, 1, Len(heap) - 1),
     err  |-> FALSE]

heappop(heap) ==
    LET lastelt == heap[Len(heap)]
        rest == SubSeq(heap, 1, Len(heap) - 1)
    IN  IF rest = <<>>
        THEN [item |-> lastelt, heap |-> rest, err |-> FALSE]
        ELSE LET r == siftup([rest EXCEPT ![1] = lastelt], 0)
             IN  [item |-> rest[1], heap |-> r.heap, err |-> r.err]

\* ------------------------------------------------------------ Workshop
Workshop(max_participants) ==
    [max_participants |-> max_participants,
     registered_users |-> <<>>,
     waitlist         |-> <<>>,
     priority_queue   |-> <<>>]

\* off by one: full only once the capacity is exceeded
is_full_strict(w) == Len(w.registered_users) > w.max_participants

is_full(w) == Len(w.registered_users) >= w.max_participants

is_user_registered_or_queued(w, user) ==
    \/ InList(user, w.registered_users)
    \/ \E i \in 1..Len(w.priority_queue) : w.priority_queue[i][2] = user

\* Workshop.add_user; msg is the report printed, err an uncaught TypeError
Workshop_add_user(w, user, priority) ==
    IF is_user_registered_or_queued(w, user)
    THEN [w |-> w, msg |-> "already", err |-> FALSE]
    ELSE IF is_full(w)
    THEN [w |-> [w EXCEPT !.waitlist = LinkedList_append(w.waitlist, user)],
          msg |-> "waitlisted", err |-> FALSE]
    ELSE LET r == heappush(w.priority_queue, <<priority, user>>)
         IN  [w |-> [w EXCEPT !.priority_queue = r.heap],
              msg |-> IF r.err THEN "TypeError" ELSE "queued", err |-> r.err]

\* Workshop.process_registration
RECURSIVE process_registration(_)
process_registration(w) ==
    IF Len(w.registered_users) < w.max_participants /\ w.priority_queue # <<>>
    THEN LET r == heappop(w.priority_queue)
         IN  IF r.err
             THEN [w |-> [w EXCEPT !.priority_queue = r.heap], err |-> TRUE]
             ELSE process_registration(
                      [w EXCEPT !.priority_queue = r.heap,
                                !.registered_users = Append(@, r.item[2])])
    ELSE [w |-> w, err |-> FALSE]

\* Workshop.remove_user
remove_user_no_promotion(w, user) ==
    IF InList(user, w.registered_users)
    THEN [w |-> [w EXCEPT !.registered_users = ListRemove(w.registered_users, user)],
          msg |-> "deregistered"]
    ELSE [w |-> w, msg |-> "not_registered"]

remove_user(w, user) ==
    IF InList(user, w.registered_users)
    THEN LET removed == ListRemove(w.registered_users, user)
         IN  IF ~LinkedList_is_empty(w.waitlist)
             THEN LET p == LinkedList_pop(w.waitlist)
                  IN  [w |-> [w EXCEPT !.registered_users = Append(removed, p.user),
                                       !.waitlist = p.list],
                       msg |-> "promoted"]
             ELSE [w |-> [w EXCEPT !.registered_users = removed],
                   msg |-> "deregistered"]
    ELSE [w |-> w, msg |-> "not_registered"]

\* ------------------------------------------------------------ Graph
\* defaultdict(list): entries [key, val] in insertion order
Graph == <<>>

HasKey(g, k) == \E i \in 1..Len(g) : g[i].key = k

KeyIndex(g, k) == CHOOSE i \in 1..Len(g) : g[i].key = k

\* self.graph[k]: a missing key is inserted with an empty list
Materialize(g, k) == IF HasKey(g, k) THEN g ELSE Append(g, [key |-> k, val |-> <<>>])

\* the list stored under a key that is present
GetItem(g, k) == g[KeyIndex(g, k)].val

SetItem(g, k, v) == [g EXCEPT ![KeyIndex(g, k)].val = v]

add_edge(g, prerequisite, dependent) ==
    LET g1 == Materialize(g, prerequisite)
    IN  SetItem(g1, prerequisite, Append(GetItem(g1, prerequisite), dependent))

\* Graph.get_prerequisites: self.graph[workshop] if workshop in self.graph else []
get_prerequisites(g, workshop) ==
    IF HasKey(g, workshop) THEN GetItem(g, workshop) ELSE <<>>

\* Graph.has_prerequisites: bool(self.graph[workshop]); the read inserts the key
has_prerequisites(g, workshop) ==
    LET g1 == Materialize(g, workshop)
    IN  [graph |-> g1, result |-> GetItem(g1, workshop) # <<>>]

\* Graph.topological_sort: st = [graph, visited, stack]
RECURSIVE dfs(_, _)
RECURSIVE dfs_neighbors(_, _, _)
dfs(st, workshop) ==
    LET g1 == Materialize(st.graph, workshop)
        st1 == [st EXCEPT !.visited = @ \cup {workshop}, !.graph = g1]
        st2 == dfs_neighbors(st1, GetItem(g1, workshop), 1)
    IN  [st2 EXCEPT !.stack = Append(@, workshop)]

dfs_neighbors(st, neighbors, i) ==
    IF i > Len(neighbors) THEN st
    ELSE dfs_neighbors(IF neighbors[i] \notin st.visited
                       THEN dfs(st, neighbors[i]) ELSE st,
                       neighbors, i + 1)

\* the root loop without its "not in visited" test
RECURSIVE dfs_roots_unguarded(_, _, _)
dfs_roots_unguarded(st, keys, i) ==
    IF i > Len(keys) THEN st
    ELSE dfs_roots_unguarded(dfs(st, keys[i]), keys, i + 1)

\* for workshop in list(self.graph): the roots are the keys present at the call
RECURSIVE dfs_roots(_, _, _)
dfs_roots(st, keys, i) ==
    IF i > Len(keys) THEN st
    ELSE dfs_roots(IF keys[i] \notin st.visited THEN dfs(st, keys[i]) ELSE st,
                   keys, i + 1)

\* returns the stack as built, without reversing it
topological_sort_unreversed(g) ==
    LET keys == [i \in 1..Len(g) |-> g[i].key]
        st == dfs_roots([graph |-> g, visited |-> {}, stack |-> <<>>], keys, 1)
    IN  [graph |-> st.graph, result |-> st.stack]

topological_sort(g) ==
    LET keys == [i \in 1..Len(g) |-> g[i].key]
        st == dfs_roots([graph |-> g, visited |-> {}, stack |-> <<>>], keys, 1)
    IN  [graph |-> st.graph, result |-> Reverse(st.stack)]

\* ------------------------------------------------------------ RegistrationSystem
\* dict[k] = v
DictSet(d, k, v) == [x \in DOMAIN d \cup {k} |-> IF x = k THEN v ELSE d[x]]

\* del dict[k] for a key that is present
DictDel(d, k) == [x \in DOMAIN d \ {k} |-> d[x]]

User(user_id, n) == [user_id |-> user_id, obj |-> n]

\* the report of the last call: res names the message printed or the
\* exception that left the call uncaught, val the values the message or
\* the return carries
Report(op, res) == [op |-> op, res |-> res, val |-> <<>>]

Exceptions == {"KeyError", "TypeError", "ValueError", "IndexError"}

\* no handler catches an exception: the menu loop of main() ends with it
Crashed == out.res \in Exceptions

Init ==
    /\ users = <<>>
    /\ allocated = [i \in UserIds \cup AdmUserIds |-> 0]
    /\ workshops = <<>>
    /\ graph = Graph
    /\ undo_stack = <<>>
    /\ out = Report("init", "ok")

\* RegistrationSystem.add_user; email_ok is '@' in email
add_user(user_id, email_ok) ==
    /\ ~Crashed
    /\ IF ~email_ok
       THEN /\ out' = Report("add_user", "invalid_email")
            /\ UNCHANGED <<users, allocated, workshops, graph, undo_stack>>
       ELSE /\ LET user == User(user_id, allocated[user_id] + 1)
               IN  /\ users' = DictSet(users, user_id, user)
                   /\ undo_stack' = Append(undo_stack, <<"add_user", user>>)
            /\ allocated' = [allocated EXCEPT ![user_id] = @ + 1]
            /\ out' = Report("add_user", "ok")
            /\ UNCHANGED <<workshops, graph>>

\* RegistrationSystem.add_workshop; the undo record keeps the Workshop
\* object, of which undo reads the title only
add_workshop(title, max_participants) ==
    /\ ~Crashed
    /\ workshops' = DictSet(workshops, title, Workshop(max_participants))
    /\ undo_stack' = Append(undo_stack, <<"add_workshop", title>>)
    /\ out' = Report("add_workshop", "ok")
    /\ UNCHANGED <<users, allocated, graph>>

\* "and" for "or": the edge is recorded when only one title is unknown
add_prerequisite_and(prerequisite, dependent) ==
    /\ ~Crashed
    /\ IF prerequisite \notin DOMAIN workshops /\ dependent \notin DOMAIN workshops
       THEN /\ out' = Report("add_prerequisite", "not_found")
            /\ UNCHANGED <<users, allocated, workshops, graph, undo_stack>>
       ELSE /\ graph' = add_edge(graph, prerequisite, dependent)
            /\ undo_stack' = Append(undo_stack, <<"add_prerequisite", prerequisite, dependent>>)
            /\ out' = Report("add_prerequisite", "ok")
            /\ UNCHANGED <<users, allocated, workshops>>

add_prerequisite(prerequisite, dependent) ==
    /\ ~Crashed
    /\ IF prerequisite \notin DOMAIN workshops \/ dependent \notin DOMAIN workshops
       THEN /\ out' = Report("add_prerequisite", "not_found")
            /\ UNCHANGED <<users, allocated, workshops, graph, undo_stack>>
       ELSE /\ graph' = add_edge(graph, prerequisite, dependent)
            /\ undo_stack' = Append(undo_stack, <<"add_prerequisite", prerequisite, dependent>>)
            /\ out' = Report("add_prerequisite", "ok")
            /\ UNCHANGED <<users, allocated, workshops>>

\* RegistrationSystem.check_prerequisites: "True", "False", or the KeyError
\* of self.workshops[prereq] for a title that is no longer a key
RECURSIVE check_loop(_, _, _)
check_loop(user_id, prerequisites, i) ==
    IF i > Len(prerequisites) THEN "True"
    ELSE IF prerequisites[i] \notin DOMAIN workshops THEN "KeyError"
    ELSE IF ~\E j \in 1..Len(workshops[prerequisites[i]].registered_users) :
                workshops[prerequisites[i]].registered_users[j].user_id = user_id
    THEN "False"
    ELSE check_loop(user_id, prerequisites, i + 1)

check_prerequisites(user_id, workshop_title) ==
    check_loop(user_id, get_prerequisites(graph, workshop_title), 1)

register_user_for_workshop(user_id, workshop_title, priority) ==
    /\ ~Crashed
    /\ UNCHANGED <<users, allocated, graph>>
    /\ IF user_id \notin DOMAIN users
       THEN /\ out' = Report("register", "user_not_found")
            /\ UNCHANGED <<workshops, undo_stack>>
       ELSE IF workshop_title \notin DOMAIN workshops
       THEN /\ out' = Report("register", "workshop_not_found")
            /\ UNCHANGED <<workshops, undo_stack>>
       ELSE LET chk == check_prerequisites(user_id, workshop_title)
                user == users[user_id]
                a == Workshop_add_user(workshops[workshop_title], user, priority)
                p == process_registration(a.w)
            IN  IF chk = "KeyError"
                THEN /\ out' = Report("register", "KeyError")
                     /\ UNCHANGED <<workshops, undo_stack>>
                ELSE IF chk = "False"
                THEN /\ out' = Report("register", "prereq_unmet")
                     /\ UNCHANGED <<workshops, undo_stack>>
                ELSE IF a.err
                THEN /\ out' = Report("register", "TypeError")
                     /\ workshops' = [workshops EXCEPT ![workshop_title] = a.w]
                     /\ UNCHANGED undo_stack
                ELSE IF p.err
                THEN /\ out' = Report("register", "TypeError")
                     /\ workshops' = [workshops EXCEPT ![workshop_title] = p.w]
                     /\ UNCHANGED undo_stack
                ELSE /\ out' = [op |-> "register", res |-> a.msg,
                             val |-> IF a.msg = "queued" THEN <<priority>> ELSE <<>>]
                     /\ workshops' = [workshops EXCEPT ![workshop_title] = p.w]
                     /\ undo_stack' = Append(undo_stack, <<"register", user, workshop_title>>)

deregister_user_from_workshop(user_id, workshop_title) ==
    /\ ~Crashed
    /\ UNCHANGED <<users, allocated, graph>>
    /\ IF user_id \notin DOMAIN users
       THEN /\ out' = Report("deregister", "user_not_found")
            /\ UNCHANGED <<workshops, undo_stack>>
       ELSE IF workshop_title \notin DOMAIN workshops
       THEN /\ out' = Report("deregister", "workshop_not_found")
            /\ UNCHANGED <<workshops, undo_stack>>
       ELSE LET r == remove_user(workshops[workshop_title], users[user_id])
            IN                /\ out' = Report("deregister", r.msg)
                /\ workshops' = [workshops EXCEPT ![workshop_title] = r.w]
                /\ undo_stack' = Append(undo_stack,
                                        <<"deregister", users[user_id], workshop_title>>)

\* undo_last_action after the pop: the inverse of the record popped
apply_undo(action) ==
    CASE action[1] = "add_user" ->
           IF action[2].user_id \in DOMAIN users
           THEN /\ users' = DictDel(users, action[2].user_id)
                /\ out' = Report("undo", "add_user")
                /\ UNCHANGED <<workshops, graph>>
           ELSE /\ out' = Report("undo", "KeyError")
                /\ UNCHANGED <<users, workshops, graph>>
      [] action[1] = "add_workshop" ->
           IF action[2] \in DOMAIN workshops
           THEN /\ workshops' = DictDel(workshops, action[2])
                /\ out' = Report("undo", "add_workshop")
                /\ UNCHANGED <<users, graph>>
           ELSE /\ out' = Report("undo", "KeyError")
                /\ UNCHANGED <<users, workshops, graph>>
      [] action[1] = "add_prerequisite" ->
           LET g1 == Materialize(graph, action[2])
           IN  IF InList(action[3], GetItem(g1, action[2]))
               THEN /\ graph' = SetItem(g1, action[2],
                                        ListRemove(GetItem(g1, action[2]), action[3]))
                    /\ out' = Report("undo", "add_prerequisite")
                    /\ UNCHANGED <<users, workshops>>
               ELSE /\ graph' = g1
                    /\ out' = Report("undo", "ValueError")
                    /\ UNCHANGED <<users, workshops>>
      [] action[1] = "register" ->
           IF action[3] \in DOMAIN workshops
           THEN /\ workshops' = [workshops EXCEPT ![action[3]] =
                                     remove_user(workshops[action[3]], action[2]).w]
                /\ out' = Report("undo", "register")
                /\ UNCHANGED <<users, graph>>
           ELSE /\ out' = Report("undo", "KeyError")
                /\ UNCHANGED <<users, workshops, graph>>
      [] action[1] = "deregister" ->
           IF action[3] \in DOMAIN workshops
           THEN LET a == Workshop_add_user(workshops[action[3]], action[2], 0)
                IN  /\ workshops' = [workshops EXCEPT ![action[3]] = a.w]
                    /\ out' = Report("undo", IF a.err THEN "TypeError" ELSE "deregister")
                    /\ UNCHANGED <<users, graph>>
           ELSE /\ out' = Report("undo", "KeyError")
                /\ UNCHANGED <<users, workshops, graph>>

\* a missing early return: the pop of an empty list raises
undo_without_return ==
    /\ ~Crashed
    /\ UNCHANGED allocated
    /\ IF undo_stack = <<>>
       THEN /\ out' = Report("undo", "IndexError")
            /\ UNCHANGED <<users, workshops, graph, undo_stack>>
       ELSE /\ undo_stack' = SubSeq(undo_stack, 1, Len(undo_stack) - 1)
            /\ apply_undo(undo_stack[Len(undo_stack)])

undo_last_action ==
    /\ ~Crashed
    /\ UNCHANGED allocated
    /\ IF undo_stack = <<>>
       THEN /\ out' = Report("undo", "empty")
            /\ UNCHANGED <<users, workshops, graph, undo_stack>>
       ELSE /\ undo_stack' = SubSeq(undo_stack, 1, Len(undo_stack) - 1)
            /\ apply_undo(undo_stack[Len(undo_stack)])

\* ------------------------------------------------------------ specification
\* What the program leaves unbounded is capped on the state a call produces.
Bounded(maxUndo, maxObjs, maxWait) ==
    /\ Len(undo_stack') <= maxUndo
    /\ \A i \in DOMAIN allocated' : allocated'[i] <= maxObjs
    /\ \A t \in DOMAIN workshops' : Len(workshops'[t].waitlist) <= maxWait

\* Spec: the six calls of the menu in any order, from the empty system.
InSpec == Bounded(MaxUndo, MaxObjs, MaxWait)

create_participant ==
    \E i \in UserIds, e \in BOOLEAN : add_user(i, e) /\ InSpec
create_activity ==
    \E t \in Titles, c \in Capacities : add_workshop(t, c) /\ InSpec
add_prereq ==
    \E p \in Titles, d \in Titles : add_prerequisite(p, d) /\ InSpec
register ==
    \E i \in UserIds, t \in Titles, p \in Priorities :
        register_user_for_workshop(i, t, p) /\ InSpec
deregister ==
    \E i \in UserIds, t \in Titles :
        deregister_user_from_workshop(i, t) /\ InSpec
undo == undo_last_action /\ InSpec

Next ==
    \/ create_participant
    \/ create_activity
    \/ add_prereq
    \/ register
    \/ deregister
    \/ undo

Spec == Init /\ [][Next]_vars

\* SpecAdmission: the calls that reach one workshop's admission unit, with
\* more participants, capacities and a longer undo stack than Spec affords.
InAdmission == Bounded(AdmMaxUndo, AdmMaxObjs, AdmMaxWait)

\* The participants are created in the order of AdmUsers, and before the
\* workshop is; the workshop is created once all of them exist.
adm_create_participant ==
    \E n \in 1..Len(AdmUsers) :
        /\ AdmTitle \notin DOMAIN workshops
        /\ DOMAIN users = {AdmUsers[m] : m \in 1..(n - 1)}
        /\ add_user(AdmUsers[n], TRUE)
        /\ InAdmission
adm_create_activity ==
    \E c \in AdmCapacities :
        /\ AdmTitle \notin DOMAIN workshops
        /\ DOMAIN users = AdmUserIds
        /\ add_workshop(AdmTitle, c)
        /\ InAdmission
adm_register ==
    \E i \in AdmUserIds, p \in AdmPriorities :
        register_user_for_workshop(i, AdmTitle, p) /\ InAdmission
adm_deregister ==
    \E i \in AdmUserIds : deregister_user_from_workshop(i, AdmTitle) /\ InAdmission
adm_undo == undo_last_action /\ InAdmission

NextAdmission ==
    \/ adm_create_participant
    \/ adm_create_activity
    \/ adm_register
    \/ adm_deregister
    \/ adm_undo

SpecAdmission == Init /\ [][NextAdmission]_vars

\* SpecGraph: the methods of Graph called on their own, over three titles.
EdgeCount(g) == IF g = <<>> THEN 0
                ELSE LET n[i \in 0..Len(g)] ==
                             IF i = 0 THEN 0 ELSE n[i - 1] + Len(g[i].val)
                     IN  n[Len(g)]

g_add_edge ==
    \E p \in GraphTitles, d \in GraphTitles :
        /\ EdgeCount(graph) < MaxEdges
        /\ graph' = add_edge(graph, p, d)
        /\ out' = Report("add_edge", "ok")
        /\ UNCHANGED <<users, allocated, workshops, undo_stack>>

g_topological_sort ==
    LET r == topological_sort(graph)
    IN  /\ graph' = r.graph
        /\ out' = [op |-> "topological_sort", res |-> "ok", val |-> r.result]
        /\ UNCHANGED <<users, allocated, workshops, undo_stack>>

g_has_prerequisites ==
    \E w \in GraphTitles :
        LET r == has_prerequisites(graph, w)
        IN  /\ graph' = r.graph
            /\ out' = Report("has_prerequisites", IF r.result THEN "True" ELSE "False")
            /\ UNCHANGED <<users, allocated, workshops, undo_stack>>

g_get_prerequisites ==
    \E w \in GraphTitles :
        /\ out' = [op |-> "get_prerequisites", res |-> "ok",
                   val |-> get_prerequisites(graph, w)]
        /\ UNCHANGED <<users, allocated, workshops, graph, undo_stack>>

NextGraph ==
    \/ g_add_edge
    \/ g_topological_sort
    \/ g_has_prerequisites
    \/ g_get_prerequisites

SpecGraph == Init /\ [][NextGraph]_vars

\* SpecPrerequisite: workshops, prerequisite edges and undo alone, with an
\* undo stack deep enough for two workshops and three edges.
InPrerequisite == Bounded(PreMaxUndo, MaxObjs, MaxWait)

pre_create_activity ==
    \E t \in Titles, c \in Capacities : add_workshop(t, c) /\ InPrerequisite
pre_add_prereq ==
    \E p \in Titles, d \in Titles : add_prerequisite(p, d) /\ InPrerequisite
pre_undo == undo_last_action /\ InPrerequisite

NextPrerequisite ==
    \/ pre_create_activity
    \/ pre_add_prereq
    \/ pre_undo

SpecPrerequisite == Init /\ [][NextPrerequisite]_vars

\* ------------------------------------------------------------ properties
AllUserIds == UserIds \cup AdmUserIds
AllTitles == Titles \cup GraphTitles
AllPriorities == Priorities \cup AdmPriorities

Elems(seq) == {seq[n] : n \in 1..Len(seq)}

\* C1: in every state reached, no workshop has more registered users than
\* its max_participants; and a submit (by register, or by the undo of a
\* deregister) made while the workshop is full leaves the registered list
\* as it is and appends the user to the waitlist, unless the user is
\* already registered or pending, in which case nothing changes.
C1_SubmitAtCapacity(w, w2, user) ==
    Len(w.registered_users) >= w.max_participants =>
        /\ w2.registered_users = w.registered_users
        /\ w2.priority_queue = w.priority_queue
        /\ w2.waitlist =
             IF \/ user \in Elems(w.registered_users)
                \/ \E n \in 1..Len(w.priority_queue) : w.priority_queue[n][2] = user
             THEN w.waitlist
             ELSE Append(w.waitlist, user)

C1_CapacityNeverExceeded ==
    [][/\ \A t \in DOMAIN workshops' :
            Len(workshops'[t].registered_users) <= workshops'[t].max_participants
       /\ \A i \in AllUserIds, t \in AllTitles, p \in AllPriorities :
            (/\ register_user_for_workshop(i, t, p)
             /\ out'.res \in {"already", "waitlisted", "queued"})
            => C1_SubmitAtCapacity(workshops[t], workshops'[t], users[i])
       /\ (undo_last_action /\ out'.res = "deregister")
            => LET action == undo_stack[Len(undo_stack)]
               IN  C1_SubmitAtCapacity(workshops[action[3]], workshops'[action[3]],
                                       action[2])
      ]_vars

\* a register call found the workshop full and put the user on the waitlist
C1_Witness ==
    /\ out.op = "register" /\ out.res = "waitlisted"
    /\ \E t \in DOMAIN workshops :
          /\ workshops[t].max_participants >= 1
          /\ Len(workshops[t].registered_users) = workshops[t].max_participants
          /\ workshops[t].waitlist # <<>>

\* C2: register(u, D) for an existing participant and activity is rejected
\* as prerequisite-unmet exactly when some P recorded as a prerequisite of D
\* by add_prerequisite(P, D) has no registered user with u's id.
RecordedPrerequisites(D) ==
    {graph[n].key : n \in {m \in 1..Len(graph) : D \in Elems(graph[m].val)}}

HasAdmitted(P, user_id) ==
    /\ P \in DOMAIN workshops
    /\ \E n \in 1..Len(workshops[P].registered_users) :
          workshops[P].registered_users[n].user_id = user_id

C2_RejectedIffPrerequisiteUnmet ==
    [][\A i \in AllUserIds, t \in AllTitles, p \in AllPriorities :
          (/\ register_user_for_workshop(i, t, p)
           /\ i \in DOMAIN users
           /\ t \in DOMAIN workshops
           /\ out'.res \notin Exceptions)
          => (out'.res = "prereq_unmet"
                <=> \E P \in RecordedPrerequisites(t) : ~HasAdmitted(P, i))
      ]_vars

\* C3 (at capacity 1): on a fresh workshop of capacity 1, after A has been
\* registered with priority q and then B with a lower priority value p, the
\* registered list is [B] and the waitlist is [A].
C3_LowestPriorityAdmitted ==
    [][\A i \in AllUserIds, t \in AllTitles, p \in AllPriorities :
          (/\ register_user_for_workshop(i, t, p)
           /\ i \in DOMAIN users
           /\ t \in DOMAIN workshops
           /\ Len(undo_stack) >= 2
           /\ undo_stack[Len(undo_stack) - 1][1] = "add_workshop"
           /\ undo_stack[Len(undo_stack) - 1][2] = t
           /\ undo_stack[Len(undo_stack)][1] = "register"
           /\ undo_stack[Len(undo_stack)][3] = t
           /\ undo_stack[Len(undo_stack)][2] # users[i]
           /\ out.op = "register" /\ out.res = "queued"
           /\ p < out.val[1]
           /\ workshops[t] = [Workshop(1) EXCEPT
                                 !.registered_users = <<undo_stack[Len(undo_stack)][2]>>])
          => /\ workshops'[t].registered_users = <<users[i]>>
             /\ workshops'[t].waitlist = <<undo_stack[Len(undo_stack)][2]>>
      ]_vars

\* C4: a workshop's waitlist changes only by an append at its end or by the
\* removal of its head; when the head leaves, it is appended to the
\* registered list in place of the user released, and the pending heap is
\* untouched; and releasing a registered user while the waitlist is
\* non-empty always removes the head.
C4_Released(w, w2, user) ==
    (user \in Elems(w.registered_users) /\ w.waitlist # <<>>)
        => /\ w2.waitlist = Tail(w.waitlist)
           /\ Len(w2.registered_users) = Len(w.registered_users)
           /\ w2.registered_users[Len(w2.registered_users)] = Head(w.waitlist)

C4_OverflowIsFifo ==
    [][/\ \A t \in DOMAIN workshops \cap DOMAIN workshops' :
            LET w == workshops[t]
                w2 == workshops'[t]
            IN  out'.op # "add_workshop" =>
                  \/ w2.waitlist = w.waitlist
                  \/ /\ Len(w2.waitlist) = Len(w.waitlist) + 1
                     /\ SubSeq(w2.waitlist, 1, Len(w.waitlist)) = w.waitlist
                  \/ /\ w.waitlist # <<>>
                     /\ w2.waitlist = Tail(w.waitlist)
                     /\ w2.priority_queue = w.priority_queue
                     /\ \E n \in 1..Len(w.registered_users) :
                           w2.registered_users =
                               SubSeq(w.registered_users, 1, n - 1)
                               \o SubSeq(w.registered_users, n + 1, Len(w.registered_users))
                               \o <<Head(w.waitlist)>>
       /\ \A i \in AllUserIds, t \in AllTitles :
            (/\ deregister_user_from_workshop(i, t)
             /\ i \in DOMAIN users
             /\ t \in DOMAIN workshops)
            => C4_Released(workshops[t], workshops'[t], users[i])
       /\ (undo_last_action /\ out'.res = "register")
            => LET action == undo_stack[Len(undo_stack)]
               IN  C4_Released(workshops[action[3]], workshops'[action[3]], action[2])
      ]_vars

\* a release promoted the waitlist's head while an entry stayed pending and
\* another user stayed on the waitlist behind the head
C4_Witness ==
    /\ out.op = "deregister" /\ out.res = "promoted"
    /\ \E t \in DOMAIN workshops :
          /\ workshops[t].priority_queue # <<>>
          /\ workshops[t].waitlist # <<>>

\* C5: a register call for a user who is already registered in the workshop
\* or already pending in it changes neither the workshop nor the undo stack.
C5_ReRegisterIsNoOp ==
    [][\A i \in AllUserIds, t \in AllTitles, p \in AllPriorities :
          (/\ register_user_for_workshop(i, t, p)
           /\ i \in DOMAIN users
           /\ t \in DOMAIN workshops
           /\ \/ users[i] \in Elems(workshops[t].registered_users)
              \/ \E n \in 1..Len(workshops[t].priority_queue) :
                    workshops[t].priority_queue[n][2] = users[i])
          => /\ workshops'[t] = workshops[t]
             /\ undo_stack' = undo_stack
      ]_vars

\* C6: a call of add_user, add_workshop, add_prerequisite, register or
\* deregister appends exactly one record to the undo stack if it changed the
\* users, the workshops or the graph (a creation that succeeds stores a new
\* object, which is a change), and leaves the stack as it is otherwise.
C6_Changed ==
    \/ users' # users
    \/ workshops' # workshops
    \/ graph' # graph
    \/ (out'.op \in {"add_user", "add_workshop"} /\ out'.res = "ok")

C6_OneRecordIffChanged ==
    [][(/\ out'.op \in {"add_user", "add_workshop", "add_prerequisite",
                        "register", "deregister"}
        /\ out'.res \notin Exceptions)
       => IF C6_Changed
          THEN /\ Len(undo_stack') = Len(undo_stack) + 1
               /\ SubSeq(undo_stack', 1, Len(undo_stack)) = undo_stack
          ELSE undo_stack' = undo_stack
      ]_vars

\* C7: no call ends in an exception that nothing catches.
C7_NoUnhandledFailure == out.res \notin Exceptions

\* C8: undo on an empty undo stack reports that there is nothing to undo
\* and changes neither users, workshops, graph nor the stack.
C8_UndoOnEmptyLog ==
    [][(out'.op = "undo" /\ undo_stack = <<>>)
       => /\ out'.res = "empty"
          /\ users' = users
          /\ workshops' = workshops
          /\ graph' = graph
          /\ undo_stack' = undo_stack
      ]_vars

\* undo was called on an empty stack while users, workshops or graph were
\* not empty
C8_Witness ==
    /\ out.op = "undo" /\ out.res = "empty"
    /\ undo_stack = <<>>
    /\ (users # <<>> \/ workshops # <<>> \/ graph # <<>>)

\* C9: after topological_sort on an acyclic graph, every recorded edge
\* (P, D) has P at an earlier position of the result than D.
Edges(g) == {e \in AllTitles \X AllTitles :
                \E n \in 1..Len(g) : g[n].key = e[1] /\ e[2] \in Elems(g[n].val)}

RECURSIVE Reachable(_, _)
Reachable(from, E) ==
    LET more == from \cup {e[2] : e \in {x \in E : x[1] \in from}}
    IN  IF more = from THEN from ELSE Reachable(more, E)

Acyclic(g) ==
    \A v \in AllTitles :
        v \notin Reachable({e[2] : e \in {x \in Edges(g) : x[1] = v}}, Edges(g))

Positions(seq, x) == {n \in 1..Len(seq) : seq[n] = x}

C9_TopologicalOrder ==
    (out.op = "topological_sort" /\ Acyclic(graph))
    => \A e \in Edges(graph) :
          /\ Positions(out.val, e[1]) # {}
          /\ Positions(out.val, e[2]) # {}
          /\ \A a \in Positions(out.val, e[1]), b \in Positions(out.val, e[2]) : a < b

\* topological_sort returned the order of an acyclic graph on three
\* workshops one of which has two recorded prerequisites
C9_Witness ==
    /\ out.op = "topological_sort"
    /\ Acyclic(graph)
    /\ Len(out.val) = 3
    /\ \E d \in AllTitles : Cardinality({e \in Edges(graph) : e[2] = d}) = 2

\* C10: a rejected call changes nothing: register or deregister naming an
\* unknown user or workshop, register rejected for unmet prerequisites,
\* add_prerequisite naming a title that is not a workshop, and add_user with
\* an email without '@' leave users, workshops, graph and undo stack as
\* they were.
C10_NothingChanged ==
    /\ users' = users
    /\ workshops' = workshops
    /\ graph' = graph
    /\ undo_stack' = undo_stack

C10_RejectedCallChangesNothing ==
    [][/\ \A i \in AllUserIds, t \in AllTitles, p \in AllPriorities :
            (/\ register_user_for_workshop(i, t, p)
             /\ (i \notin DOMAIN users \/ t \notin DOMAIN workshops))
            => C10_NothingChanged
       /\ \A i \in AllUserIds, t \in AllTitles :
            (/\ deregister_user_from_workshop(i, t)
             /\ (i \notin DOMAIN users \/ t \notin DOMAIN workshops))
            => C10_NothingChanged
       /\ \A a \in AllTitles, b \in AllTitles :
            (/\ add_prerequisite(a, b)
             /\ (a \notin DOMAIN workshops \/ b \notin DOMAIN workshops))
            => C10_NothingChanged
       /\ \A i \in AllUserIds : add_user(i, FALSE) => C10_NothingChanged
       /\ out'.res \in {"user_not_found", "workshop_not_found", "prereq_unmet",
                        "not_found", "invalid_email"}
            => C10_NothingChanged
      ]_vars

\* a register call was rejected for unmet prerequisites with records on the
\* undo stack and a registered user somewhere
C10_Witness ==
    /\ out.op = "register" /\ out.res = "prereq_unmet"
    /\ graph # <<>>
    /\ undo_stack # <<>>

\* C11: when a call has returned, no workshop has a non-empty pending heap
\* while fewer users are registered than max_participants allows.
C11_NoPendingBelowCapacity ==
    out.res \notin Exceptions =>
        \A t \in DOMAIN workshops :
            ~(/\ workshops[t].priority_queue # <<>>
              /\ Len(workshops[t].registered_users) < workshops[t].max_participants)

\* C12: in every workshop each user occurs at most once in total in the
\* registered list, the pending heap and the waitlist.
Occurrences(w, user) ==
    Cardinality({n \in 1..Len(w.registered_users) : w.registered_users[n] = user})
    + Cardinality({n \in 1..Len(w.priority_queue) : w.priority_queue[n][2] = user})
    + Cardinality({n \in 1..Len(w.waitlist) : w.waitlist[n] = user})

Held(w) ==
    Elems(w.registered_users) \cup Elems(w.waitlist)
    \cup {w.priority_queue[n][2] : n \in 1..Len(w.priority_queue)}

C12_AtMostOncePerWorkshop ==
    \A t \in DOMAIN workshops :
        \A user \in Held(workshops[t]) : Occurrences(workshops[t], user) = 1

\* C13: when a register call has just placed a user who was in none of the
\* workshop's structures (the user is now registered once, or on the
\* waitlist once, and nowhere else), an undo right after it leaves the user
\* in none of them.
C13_UndoRegisterRemoves ==
    [][(/\ undo_last_action
        /\ out.op = "register"
        /\ out.res \in {"queued", "waitlisted"}
        /\ undo_stack # <<>>
        /\ undo_stack[Len(undo_stack)][1] = "register"
        /\ undo_stack[Len(undo_stack)][3] \in DOMAIN workshops
        /\ Occurrences(workshops[undo_stack[Len(undo_stack)][3]],
                       undo_stack[Len(undo_stack)][2]) = 1)
       => LET action == undo_stack[Len(undo_stack)]
          IN  /\ action[3] \in DOMAIN workshops'
              /\ Occurrences(workshops'[action[3]], action[2]) = 0
      ]_vars

\* C14: in a register call that returns, process_registration admits from
\* the pending heap in priority order: every entry it takes out of the heap
\* (the entries pending before the call, plus the caller's when it was
\* queued) has a priority no greater than that of any entry it leaves
\* pending.
PendingAtSettle(w, user, priority, msg) ==
    Elems(w.priority_queue)
    \cup (IF msg = "queued" THEN {<<priority, user>>} ELSE {})

C14_SettleAdmitsMinimum ==
    [][\A i \in AllUserIds, t \in AllTitles, p \in AllPriorities :
          (/\ register_user_for_workshop(i, t, p)
           /\ i \in DOMAIN users
           /\ t \in DOMAIN workshops
           /\ out'.res \notin Exceptions)
          => LET before == PendingAtSettle(workshops[t], users[i], p, out'.res)
                 after  == Elems(workshops'[t].priority_queue)
             IN  \A e \in before \ after : \A f \in after : e[1] <= f[1]
      ]_vars

\* C14 witness: a register at priority 1 was queued and is still pending
\* after the call, the workshop having been filled in that call from an
\* entry of a different priority.
C14_Witness ==
    /\ out.op = "register"
    /\ out.res = "queued"
    /\ out.val = <<1>>
    /\ AdmTitle \in DOMAIN workshops
    /\ \E n \in 1..Len(workshops[AdmTitle].priority_queue) :
          workshops[AdmTitle].priority_queue[n][1] = 1
    /\ workshops[AdmTitle].registered_users # <<>>
    /\ Len(workshops[AdmTitle].registered_users) = workshops[AdmTitle].max_participants

\* C15: on every graph, cyclic ones included, topological_sort returns a
\* list (the call comes back with a value), and the list it returns holds
\* every workshop that occurs in a recorded edge exactly once.
CoversEveryNodeOnce(g, order) ==
    \A e \in Edges(g) :
        /\ Cardinality(Positions(order, e[1])) = 1
        /\ Cardinality(Positions(order, e[2])) = 1

C15_SortCoversEveryNodeOnce ==
    /\ CoversEveryNodeOnce(graph, topological_sort(graph).result)
    /\ out.op = "topological_sort" => CoversEveryNodeOnce(graph, out.val)

\* C15 witness: topological_sort returned on a cyclic graph that holds a
\* self-loop or a duplicate edge.
C15_Witness ==
    /\ out.op = "topological_sort"
    /\ ~Acyclic(graph)
    /\ Len(out.val) >= 2
    /\ \/ \E v \in AllTitles : <<v, v>> \in Edges(graph)
       \/ \E n \in 1..Len(graph) :
             \E a, b \in 1..Len(graph[n].val) :
                a < b /\ graph[n].val[a] = graph[n].val[b]

\* C16: an undo right after a successful add_prerequisite(P, D) gives every
\* workshop the adjacency list it had before the add: P's list without the
\* entry the add appended at its end, every other list as it is.
C16_UndoPrerequisiteRestoresLists ==
    [][(/\ undo_last_action
        /\ out.op = "add_prerequisite"
        /\ out.res = "ok"
        /\ undo_stack # <<>>
        /\ undo_stack[Len(undo_stack)][1] = "add_prerequisite")
       => LET P == undo_stack[Len(undo_stack)][2]
              added == get_prerequisites(graph, P)
          IN  \A k \in AllTitles :
                 get_prerequisites(graph', k)
                   = IF k = P THEN SubSeq(added, 1, Len(added) - 1)
                              ELSE get_prerequisites(graph, k)
      ]_vars

\* C17: an undo right after a successful add_user gives back the users
\* dict of before the add. The dict of before is known in two cases: the
\* user object is the first ever made for its id (the id was no key), or
\* the record below on the undo stack is the add of the object made just
\* before it for the same id (that object was the value overwritten).
C17_UndoCreateRestoresStore ==
    [][(/\ undo_last_action
        /\ out.op = "add_user"
        /\ out.res = "ok"
        /\ undo_stack # <<>>
        /\ undo_stack[Len(undo_stack)][1] = "add_user")
       => LET user == undo_stack[Len(undo_stack)][2]
              n == Len(undo_stack)
          IN  /\ user.obj = 1 => users' = DictDel(users, user.user_id)
              /\ (/\ n >= 2
                  /\ undo_stack[n - 1][1] = "add_user"
                  /\ undo_stack[n - 1][2] = User(user.user_id, user.obj - 1))
                 => users' = DictSet(users, user.user_id, undo_stack[n - 1][2])
      ]_vars

\* C18: in every workshop (max_participants >= 0) a non-empty waitlist
\* means the registered list holds exactly max_participants users.
C18_WaitlistOnlyWhenFull ==
    \A t \in DOMAIN workshops :
        (workshops[t].max_participants >= 0 /\ workshops[t].waitlist # <<>>)
        => Len(workshops[t].registered_users) = workshops[t].max_participants

\* C18 witness: a deregister has just promoted the head of the waitlist of
\* a workshop of capacity two, and another user is still waiting.
C18_Witness ==
    /\ out.op = "deregister"
    /\ out.res = "promoted"
    /\ AdmTitle \in DOMAIN workshops
    /\ workshops[AdmTitle].max_participants = 2
    /\ workshops[AdmTitle].waitlist # <<>>
    /\ Len(workshops[AdmTitle].registered_users) = 2

\* C19: the read-only calls get_prerequisites and has_prerequisites, and
\* every register call (which consults get_prerequisites), leave the
\* graph's mapping as it is: no key is added, the order of the keys (the
\* roots of topological_sort) and every adjacency list stay the same.
C19_ReadsLeaveGraphUnchanged ==
    [][out'.op \in {"get_prerequisites", "has_prerequisites", "register"}
       => graph' = graph]_vars

====
